---- MODULE Spec2Model ----
(***************************************************************************)
(* wandb/data_types.py: the Table of typed columns, its column-type        *)
(* record and its serialization toward an artifact.                        *)
(*                                                                         *)
(* Python values are tagged tuples <<kind, payload>>; type descriptors of  *)
(* wandb.sdk.interface._dtypes are tagged tuples <<tag, parameter>>.       *)
(* Table(data=rows) adds its rows with add_data after the column types are *)
(* made (_init_from_list), so a table constructed with rows is the empty   *)
(* table followed by add_data steps.                                       *)
(***************************************************************************)
EXTENDS Integers, Sequences, FiniteSets, TLC

VARIABLES
    columns,        \* Table.columns: sequence of column names
    data,           \* Table.data: sequence of rows, a row is a sequence of values
    column_types,   \* Table._column_types: the DictType, <<"Record", type_map>>
    ctor_optional,  \* the `optional` argument the table was constructed with
    ctor_dtype,     \* the `dtype` argument the table was constructed with
    cast_called,    \* a cast() after construction has replaced a column type
    op,             \* name of the last operation called on the table
    err,            \* exception the last operation raised, "" when it returned
    ret,            \* <<>> or <<v>>: the value the last operation returned
    warned,         \* the last operation called logging.warning
    snap_alias,     \* the caller holds a reference to the object that is still Table._column_types
    snap_then,      \* <<>> or <<c>>: content of the referenced DictType when the reference was taken
    snap_now,       \* <<>> or <<c>>: content of the referenced DictType now
    tmp_files,      \* MEDIA_TMP: the staging files written so far, in order, each <<extension, content>>
    _path,          \* Media._path of the Table and of the Graph: 0 (not set) or an index into tmp_files
    _run,           \* Media._run of the Table and of the Graph: "none" or the run they are bound to
    parts,          \* the Tables stored under parts_path in the source artifact, in entry order
    _part,          \* _PartitionTablePartEntry._part of each entry: TRUE when the part is loaded
    gen,            \* the generator made by PartitionedTable.iterrows: its position and locals
    yielded,        \* the <<ndx, row>> pairs the generator has yielded, in order
    manifest,       \* artifact._manifest.entries: the set of entry paths of the artifact
    batch,          \* the value handed to val_to_json
    bind_log,       \* the bind_to_run calls the last val_to_json has made, in order, each <<item, id_>>
    is_bound        \* the rich values of the sequences that are bound to the run

tableVars == <<columns, data, column_types, ctor_optional, ctor_dtype, cast_called,
               op, err, ret, warned, snap_alias, snap_then, snap_now>>

mediaVars == <<tmp_files, _path, _run>>

partVars == <<parts, _part, gen, yielded>>

batchVars == <<batch, bind_log, is_bound>>

vars == <<tableVars, mediaVars, partVars, manifest, batchVars>>

---------------------------------------------------------------------------
(* Bounds of the model *)

MaxCells == 3
MaxFiles == 2
MaxParts == 3
MaxSeq == 3

(* Program constants, scaled down so that a one-column table of MaxCells rows exceeds both caps *)
MAX_ROWS == 1
MAX_ARTIFACT_ROWS == 2

(* Image.MAX_ITEMS, scaled down so that a sequence of MaxSeq images exceeds it *)
MAX_ITEMS == 2

---------------------------------------------------------------------------
(* Values *)

Num(n) == <<"number", n>>
Str(s) == <<"string", s>>
NoneVal == <<"none">>

Values == {Num(1), Str("a"), NoneVal}

Min(a, b) == IF a < b THEN a ELSE b

Range(s) == {s[i] : i \in 1..Len(s)}

---------------------------------------------------------------------------
(* Type descriptors (wandb.sdk.interface._dtypes) *)

Unknown == <<"Unknown">>
Invalid == <<"Invalid">>
Primitive(kind) == <<"Primitive", kind>>
Const(val) == <<"Const", val>>
Optional(inner) == <<"Optional", inner>>
Record(type_map) == <<"Record", type_map>>

(* Union flattens nested unions; its members are a set, so they are deduplicated *)
Union(members) ==
    <<"Union", UNION {IF m[1] = "Union" THEN m[2] ELSE {m} : m \in members}>>

IsInvalid(t) == t[1] = "Invalid"

(* _ImageType(box_keys, mask_keys): a list of keys becomes ConstType(set(keys)) *)
_ImageType(box_keys, mask_keys) == <<"Image", Const(box_keys), Const(mask_keys)>>

(* _ImageType.from_obj: the keys of the image's boxes; py_obj.masks is not an
   attribute of Image (the masks are in _masks), so mask_keys is always [] *)
_ImageType_from_obj(py_obj) ==
    _ImageType(IF py_obj.boxes THEN {"k"} ELSE {}, {})

(* ConstType.assign_type against another ConstType *)
Const_assign_type(T, wb_type) ==
    IF wb_type[1] = "Const" /\ wb_type[2] = T[2] THEN T ELSE Invalid

(* _ImageType.assign_type *)
_ImageType_assign_type(T, wb_type) ==
    IF wb_type[1] = "Image"
    THEN LET box_keys == Const_assign_type(T[2], wb_type[2])
             mask_keys == Const_assign_type(T[3], wb_type[3])
         IN  IF ~(IsInvalid(box_keys) \/ IsInvalid(mask_keys))
             THEN <<"Image", box_keys, mask_keys>>
             ELSE Invalid
    ELSE Invalid

(* UnionType.assign_type of a union of ConstTypes against a ConstType, by rule 5
   of assign: a member that accepts is kept, and when no member accepts the
   union gains the new member *)
Union_assign_type(T, wb_type) ==
    LET accepting == {m \in T[2] : ~IsInvalid(Const_assign_type(m, wb_type))}
    IN  IF accepting # {}
        THEN Union((T[2] \ accepting) \cup {Const_assign_type(m, wb_type) : m \in accepting})
        ELSE Union(T[2] \cup {wb_type})

(* _ClassesIdType(classes_obj): valid_ids is the union of the ConstTypes of the
   ids of the class set *)
_ClassesIdType(ids) == <<"ClassesId", Union({Const(id) : id \in ids})>>

(* _ClassesIdType.assign_type *)
_ClassesIdType_assign_type(T, wb_type) ==
    LET valid_ids == Union_assign_type(T[2], wb_type)
    IN  IF ~IsInvalid(valid_ids) THEN T ELSE Invalid

(* _ClassesIdType.assign *)
_ClassesIdType_assign(T, py_obj) == _ClassesIdType_assign_type(T, Const(py_obj))

(* typeOf of a value: the registered type of an Image, the primitive kind of a scalar *)
typeOf(v) == IF v[1] = "image" THEN _ImageType_from_obj(v[2]) ELSE Primitive(v[1])

RECURSIVE assign(_, _)
assign(T, v) ==
    CASE T[1] = "Unknown" -> typeOf(v)
      [] T[1] = "Invalid" -> Invalid
      [] T[1] = "Primitive" -> IF typeOf(v) = T THEN T ELSE Invalid
      [] T[1] = "Const" -> IF v = T[2] THEN T ELSE Invalid
      [] T[1] = "Image" -> _ImageType_assign_type(T, typeOf(v))
      [] T[1] = "ClassesId" -> _ClassesIdType_assign(T, v)
      [] T[1] = "Optional" ->
            IF v[1] = "none" THEN T
            ELSE LET r == assign(T[2], v)
                 IN  IF IsInvalid(r) THEN Invalid ELSE Optional(r)
      [] T[1] = "Union" ->
            LET accepting == {m \in T[2] : ~IsInvalid(assign(m, v))}
            IN  IF accepting # {}
                THEN Union((T[2] \ accepting) \cup {assign(m, v) : m \in accepting})
                ELSE Union(T[2] \cup {typeOf(v)})
      [] OTHER -> Invalid

(* Record.assign of a mapping name -> value; Unknown.assign(mapping) = typeOf(mapping) *)
assign_record(T, mapping) ==
    CASE T[1] = "Unknown" -> Record([k \in DOMAIN mapping |-> typeOf(mapping[k])])
      [] T[1] = "Record" ->
            LET fields == T[2]
                narrowed == [k \in (DOMAIN fields) \cup (DOMAIN mapping) |->
                                IF k \in DOMAIN fields /\ k \in DOMAIN mapping
                                THEN assign(fields[k], mapping[k])
                                ELSE IF k \in DOMAIN fields
                                THEN (IF fields[k][1] = "Optional" THEN fields[k]
                                      ELSE Optional(fields[k]))
                                ELSE Optional(typeOf(mapping[k]))]
            IN  IF \E k \in DOMAIN narrowed : IsInvalid(narrowed[k])
                THEN Invalid
                ELSE Record(narrowed)
      [] OTHER -> Invalid

(* TypeRegistry.type_from_dtype: a descriptor stands for itself *)
type_from_dtype(dtype) == dtype

(* TypeDescriptor.to_json: the tag and the serialized parameters *)
RECURSIVE type_to_json(_)
type_to_json(T) ==
    CASE T[1] = "Optional" -> <<"wb_type", "optional", type_to_json(T[2])>>
      [] T[1] = "Union" -> <<"wb_type", "union", {type_to_json(m) : m \in T[2]}>>
      [] T[1] = "Record" -> <<"wb_type", "dictionary", [k \in DOMAIN T[2] |-> type_to_json(T[2][k])]>>
      [] T[1] = "Primitive" -> <<"wb_type", T[2]>>
      [] T[1] = "Const" -> <<"wb_type", "const", T[2]>>
      [] T[1] = "Image" -> <<"wb_type", "wandb.Image", type_to_json(T[2]), type_to_json(T[3])>>
      [] T[1] = "ClassesId" -> <<"wb_type", "wandb.Classes_id", type_to_json(T[2])>>
      [] OTHER -> <<"wb_type", T[1]>>

(* TypeRegistry.type_from_dict: the descriptor a serialized descriptor stands for *)
RECURSIVE type_from_dict(_)
type_from_dict(json) ==
    CASE json[2] = "optional" -> Optional(type_from_dict(json[3]))
      [] json[2] = "union" -> Union({type_from_dict(m) : m \in json[3]})
      [] json[2] = "dictionary" -> Record([k \in DOMAIN json[3] |-> type_from_dict(json[3][k])])
      [] json[2] = "const" -> Const(json[3])
      [] json[2] = "wandb.Image" -> <<"Image", type_from_dict(json[3]), type_from_dict(json[4])>>
      [] json[2] = "wandb.Classes_id" -> <<"ClassesId", type_from_dict(json[3])>>
      [] json[2] \in {"Unknown", "Invalid"} -> <<json[2]>>
      [] OTHER -> Primitive(json[2])

---------------------------------------------------------------------------
(* Table *)

(* Names that contain a period (strings are atomic in the model) *)
HasPeriod(col) == col \in {"a.b"}

(* list.index: the first position of the name *)
index(cols, col_name) == CHOOSE i \in 1..Len(cols) :
    cols[i] = col_name /\ \A j \in 1..(i - 1) : cols[j] # col_name

(* {col_key: data[ndx] for ndx, col_key in enumerate(self.columns)}: a later
   column of the same name overwrites an earlier one *)
incoming_data_dict(cols, cells) ==
    [c \in Range(cols) |->
        cells[CHOOSE i \in 1..Len(cols) :
                cols[i] = c /\ \A j \in (i + 1)..Len(cols) : cols[j] # c]]

(* The loop of Table.cast over the existing rows: the descriptor narrowed by
   the column's values in row order, Invalid at the first incompatible one *)
RECURSIVE cast_rows(_, _, _, _)
cast_rows(wbtype, rows, col_ndx, i) ==
    IF i > Len(rows) THEN wbtype
    ELSE LET result_type == assign(wbtype, rows[i][col_ndx])
         IN  IF IsInvalid(result_type) THEN Invalid
             ELSE cast_rows(result_type, rows, col_ndx, i + 1)

(* cast that stores the new descriptor before it walks the rows *)
cast_result_assign_first(cols, rows, type_map, col_name, dtype, optional) ==
    LET wbtype == IF optional THEN Optional(type_from_dtype(dtype))
                  ELSE type_from_dtype(dtype)
    IN  IF col_name \notin Range(cols) THEN <<"ValueError", type_map>>
        ELSE LET result_type == cast_rows(wbtype, rows, index(cols, col_name), 1)
             IN  IF IsInvalid(result_type)
                 THEN <<"TypeError", (col_name :> wbtype) @@ type_map>>
                 ELSE <<"", (col_name :> result_type) @@ type_map>>

(* cast that drops its optional argument *)
cast_result_ignores_optional(cols, rows, type_map, col_name, dtype, optional) ==
    LET wbtype == type_from_dtype(dtype)
    IN  IF col_name \notin Range(cols) THEN <<"ValueError", type_map>>
        ELSE LET result_type == cast_rows(wbtype, rows, index(cols, col_name), 1)
             IN  IF IsInvalid(result_type) THEN <<"TypeError", type_map>>
                 ELSE <<"", (col_name :> result_type) @@ type_map>>

(* Table.cast as a function of the table: <<exception, type_map after the call>> *)
cast_result(cols, rows, type_map, col_name, dtype, optional) ==
    LET wbtype == IF optional THEN Optional(type_from_dtype(dtype))
                  ELSE type_from_dtype(dtype)
    IN  IF col_name \notin Range(cols) THEN <<"ValueError", type_map>>
        ELSE LET result_type == cast_rows(wbtype, rows, index(cols, col_name), 1)
             IN  IF IsInvalid(result_type) THEN <<"TypeError", type_map>>
                 ELSE <<"", (col_name :> result_type) @@ type_map>>

(* Table._make_column_types: broadcast, then cast over zip(columns, optional, dtype) *)
RECURSIVE make_casts(_, _, _, _, _)
make_casts(cols, optional, dtype, i, type_map) ==
    IF i > Min(Len(cols), Min(Len(optional), Len(dtype))) THEN type_map
    ELSE make_casts(cols, optional, dtype, i + 1,
                    cast_result(cols, <<>>, type_map, cols[i], dtype[i], optional[i])[2])

_make_column_types(cols, dtype, optional) ==
    LET dt == IF dtype[1] = "none" THEN <<"type", Unknown>> ELSE dtype
        optional_list == IF optional[1] = "list" THEN optional[2]
                         ELSE [i \in 1..Len(cols) |-> optional[2]]
        dtype_list == IF dt[1] = "list" THEN dt[2]
                      ELSE [i \in 1..Len(cols) |-> dt[2]]
    IN  Record(make_casts(cols, optional_list, dtype_list, 1, <<>>))

(* _validate_data that keeps the narrowed types of the compatible cells of a
   rejected row *)
_validate_data_partial(current_type, cols, cells) ==
    LET mapping == incoming_data_dict(cols, cells)
        result_type == assign_record(current_type, mapping)
        fields == current_type[2]
    IN  IF IsInvalid(result_type)
        THEN <<"TypeError",
               Record([k \in DOMAIN fields |->
                         IF k \in DOMAIN mapping /\ ~IsInvalid(assign(fields[k], mapping[k]))
                         THEN assign(fields[k], mapping[k])
                         ELSE fields[k]])>>
        ELSE <<"", result_type>>

(* _validate_data that never stores the narrowed type *)
_validate_data_no_commit(current_type, cols, cells) ==
    LET result_type == assign_record(current_type, incoming_data_dict(cols, cells))
    IN  IF IsInvalid(result_type) THEN <<"TypeError", current_type>>
        ELSE <<"", current_type>>

(* _validate_data that stores the result of assign before it tests it *)
_validate_data_commit_first(current_type, cols, cells) ==
    LET result_type == assign_record(current_type, incoming_data_dict(cols, cells))
    IN  IF IsInvalid(result_type) THEN <<"TypeError", result_type>>
        ELSE <<"", result_type>>

(* Table._validate_data: <<exception, column types after the call>> *)
_validate_data(current_type, cols, cells) ==
    LET result_type == assign_record(current_type, incoming_data_dict(cols, cells))
    IN  IF IsInvalid(result_type) THEN <<"TypeError", current_type>>
        ELSE <<"", result_type>>

(* _to_table_json that always uses the default cap *)
_to_table_json_default_cap(rows, max_rows) ==
    <<Len(rows) > MAX_ROWS, SubSeq(rows, 1, Min(Len(rows), MAX_ROWS))>>

(* Table._to_table_json: <<warning logged, rows kept>> *)
_to_table_json(rows, max_rows) ==
    <<Len(rows) > max_rows, SubSeq(rows, 1, Min(Len(rows), max_rows))>>

---------------------------------------------------------------------------
(* Rich values and their JSON.  A JSON object is <<"dict", f>> with f a
   function of its keys, a JSON array is <<"list", s>>.  The to_json operators
   return <<exception, JSON, manifest after the call>>. *)

ImageIds == {"i1", "i2", "i3", "i4"}

(* The images of the model: i1 plain, i2 with classes, boxes and masks, i3 with
   boxes and no classes, i4 with masks and no classes *)
Image(id) ==
    <<"image", [id |-> id,
                classes |-> (id = "i2"),
                boxes |-> (id \in {"i2", "i3"}),
                masks |-> (id \in {"i2", "i4"})]>>

(* The file of an Image, set by its constructor, under its media subdirectory *)
ImagePath(id) ==
    CASE id = "i1" -> "media/images/i1.png"
      [] id = "i2" -> "media/images/i2.png"
      [] id = "i3" -> "media/images/i3.png"
      [] OTHER -> "media/images/i4.png"

(* The file of the ImageMask of an Image *)
MaskPath(id) ==
    CASE id = "i1" -> "media/images/mask/i1.mask.png"
      [] id = "i2" -> "media/images/mask/i2.mask.png"
      [] id = "i3" -> "media/images/mask/i3.mask.png"
      [] OTHER -> "media/images/mask/i4.mask.png"

(* The file of the BoundingBoxes2D of an Image, written by JSONMetadata.__init__ *)
BoxPath(id) ==
    CASE id = "i1" -> "media/metadata/boxes2D/i1.boxes2D.json"
      [] id = "i2" -> "media/metadata/boxes2D/i2.boxes2D.json"
      [] id = "i3" -> "media/metadata/boxes2D/i3.boxes2D.json"
      [] OTHER -> "media/metadata/boxes2D/i4.boxes2D.json"

(* The name under which the n-th staging file of a Table is registered *)
StagedPath(n) ==
    CASE n = 0 -> ""
      [] n = 1 -> "media/table/f1.table.json"
      [] n = 2 -> "media/table/f2.table.json"
      [] n = 3 -> "media/table/f3.table.json"
      [] OTHER -> "media/table/f4.table.json"

(* BoundingBoxes2D._val after construction: val["box_data"] *)
BoxData == << [class_id |-> 1] >>

(* Classes._class_set *)
ClassSet == << [id |-> 1, name |-> "c"] >>

(* Media.to_json: the base fields, <<fields, manifest after the call>>.  A value
   whose file is set carries its path and, toward an artifact, is registered
   there; path "" stands for a value with no file *)
Media_to_json(path, dest, man) ==
    IF path = "" \/ dest \notin {"run", "artifact"} THEN <<<<>>, man>>
    ELSE IF dest = "artifact" THEN <<("path" :> path), man \cup {path}>>
    ELSE <<("path" :> path), man>>

(* artifact.add(obj, name): registers the object, <<entry.path, manifest after>> *)
artifact_add_result(name, man) ==
    LET path == CASE name = "media/cls" -> "media/cls.classes.json"
                  [] name = "t1" -> "t1.table.json"
                  [] name = "t2" -> "t2.table.json"
                  [] OTHER -> name
    IN  <<path, man \cup {path}>>

(* JSONMetadata.to_json *)
JSONMetadata_to_json(path, type_name, dest, man) ==
    LET b == Media_to_json(path, dest, man)
    IN  <<"", <<"dict", ("_type" :> type_name) @@ b[1]>>, b[2]>>

(* BoundingBoxes2D.to_json that returns the boxes for every destination other than a run *)
BoundingBoxes2D_to_json_any_destination(id, dest, man) ==
    IF dest = "run" THEN JSONMetadata_to_json(BoxPath(id), "boxes2D", dest, man)
    ELSE <<"", <<"list", BoxData>>, man>>

(* BoundingBoxes2D.to_json *)
BoundingBoxes2D_to_json(id, dest, man) ==
    IF dest = "run" THEN JSONMetadata_to_json(BoxPath(id), "boxes2D", dest, man)
    ELSE IF dest = "artifact" THEN <<"", <<"list", BoxData>>, man>>
    ELSE <<"ValueError", <<>>, man>>

(* ImageMask.to_json *)
ImageMask_to_json(id, dest, man) ==
    LET b == Media_to_json(MaskPath(id), dest, man)
    IN  IF dest = "run" THEN <<"", <<"dict", ("_type" :> "mask") @@ b[1]>>, b[2]>>
        ELSE IF dest = "artifact" THEN <<"", <<"dict", b[1]>>, b[2]>>
        ELSE <<"ValueError", <<>>, b[2]>>

(* Classes.to_json(artifact): a Classes object has no file of its own *)
Classes_to_json(dest, man) ==
    LET b == Media_to_json("", dest, man)
    IN  <<"", <<"dict", ("_type" :> "classes") @@ ("class_set" :> ClassSet) @@ b[1]>>, b[2]>>

(* PartitionedTable.to_json(artifact) *)
PartitionedTable_to_json(dest, man) ==
    LET b == Media_to_json("", dest, man)
    IN  <<"", <<"dict", ("parts_path" :> "parts") @@ b[1]>>, b[2]>>

(* Image.to_json that does not add its Classes object to the artifact *)
Image_classes_entry_not_added(img, dest, man) ==
    IF dest = "artifact" /\ img.classes THEN <<"media/cls.classes.json", man>>
    ELSE <<"", man>>

(* Image.to_json, the artifact branch: artifact.add(self._classes, "media/cls")
   of an image with classes, <<classes_entry.path, manifest after>> *)
Image_classes_entry(img, dest, man) ==
    IF dest = "artifact" /\ img.classes THEN artifact_add_result("media/cls", man)
    ELSE <<"", man>>

(* Image.to_json after its checks: json_dict, made of the base fields, gets
   _type and format, classes (c is the classes entry), boxes and masks *)
Image_json_dict(img, dest, base, c) ==
    <<"",
      <<"dict",
        (IF img.masks THEN ("masks" :> [k |-> ImageMask_to_json(img.id, dest, c[2])[2]])
         ELSE <<>>)
        @@ (IF img.boxes THEN ("boxes" :> [k |-> BoundingBoxes2D_to_json(img.id, dest, c[2])[2]])
            ELSE <<>>)
        @@ (IF dest = "artifact" /\ img.classes
            THEN ("classes" :> [type |-> "classes-file", path |-> c[1]])
            ELSE <<>>)
        @@ ("_type" :> "image-file") @@ ("format" :> "png") @@ base>>,
      IF img.masks THEN ImageMask_to_json(img.id, dest, c[2])[3] ELSE c[2]>>

(* Image.to_json.  img.classes: _classes is not None; img.boxes, img.masks: the
   image has a non-empty _boxes, _masks (keyed "k") *)
Image_to_json(img, dest, man) ==
    LET b == Media_to_json(ImagePath(img.id), dest, man)
    IN  IF dest = "artifact" /\ (img.masks \/ img.boxes) /\ ~img.classes
        THEN <<"ValueError", <<>>, b[2]>>
        ELSE IF dest \notin {"run", "artifact"} THEN <<"ValueError", <<>>, b[2]>>
        ELSE Image_json_dict(img, dest, b[1], Image_classes_entry(img, dest, b[2]))

(* JoinedTable._ensure_table_in_artifact without the check of the manifest *)
_ensure_table_in_artifact_unchecked(table, man, table_ndx) ==
    LET added == IF table[1] \in {"Table", "PartitionedTable"}
                 THEN artifact_add_result(IF table_ndx = 1 THEN "t1" ELSE "t2", man)
                 ELSE IF table[1] = "ArtifactEntry"
                 THEN artifact_add_result(table[2], man)
                 ELSE <<table[2], man>>
    IN  <<"", added[1], added[2]>>

(* JoinedTable._ensure_table_in_artifact: <<exception, path, manifest after>>.
   A table is <<"str", path>>, <<"Table", name>>, <<"PartitionedTable", name>>
   (objects with no artifact_source) or <<"ArtifactEntry", name>> *)
_ensure_table_in_artifact(table, man, table_ndx) ==
    LET added == IF table[1] \in {"Table", "PartitionedTable"}
                 THEN artifact_add_result(IF table_ndx = 1 THEN "t1" ELSE "t2", man)
                 ELSE IF table[1] = "ArtifactEntry"
                 THEN artifact_add_result(table[2], man)
                 ELSE <<table[2], man>>
    IN  IF added[1] \notin added[2] THEN <<"ValueError", "", added[2]>>
        ELSE <<"", added[1], added[2]>>

(* JoinedTable.to_json(artifact) *)
JoinedTable_to_json(table1, table2, man) ==
    LET b == Media_to_json("", "artifact", man)
        e1 == _ensure_table_in_artifact(table1, b[2], 1)
        e2 == _ensure_table_in_artifact(table2, e1[3], 2)
    IN  IF e1[1] # "" THEN <<e1[1], <<>>, e1[3]>>
        ELSE IF e2[1] # "" THEN <<e2[1], <<>>, e2[3]>>
        ELSE <<"", <<"dict", ("_type" :> "joined-table") @@ ("table1" :> e1[2])
                                @@ ("table2" :> e2[2]) @@ ("join_key" :> "id") @@ b[1]>>,
               e2[3]>>

(* Table.to_json.json_helper: a rich-value cell is serialized toward the same
   artifact, a scalar cell is kept (util.json_friendly) *)
json_helper(v, man) ==
    IF v[1] = "image" THEN Image_to_json(v[2], "artifact", man)
    ELSE <<"", v, man>>

(* The loop of Table.to_json over the cells of a row, from cell i on *)
RECURSIVE map_row(_, _, _)
map_row(row, i, man) ==
    IF i > Len(row) THEN <<"", <<>>, man>>
    ELSE LET h == json_helper(row[i], man)
         IN  IF h[1] # "" THEN <<h[1], <<>>, h[3]>>
             ELSE LET rest == map_row(row, i + 1, h[3])
                  IN  IF rest[1] # "" THEN rest
                      ELSE <<"", <<h[2]>> \o rest[2], rest[3]>>

(* The loop of Table.to_json over the rows, from row i on *)
RECURSIVE map_rows(_, _, _)
map_rows(rows, i, man) ==
    IF i > Len(rows) THEN <<"", <<>>, man>>
    ELSE LET r == map_row(rows[i], 1, man)
         IN  IF r[1] # "" THEN <<r[1], <<>>, r[3]>>
             ELSE LET rest == map_rows(rows, i + 1, r[3])
                  IN  IF rest[1] # "" THEN rest
                      ELSE <<"", <<r[2]>> \o rest[2], rest[3]>>

---------------------------------------------------------------------------
(* Inputs *)

(* The constructor calls explored: <<columns, optional, dtype>>.  optional is
   <<"bool", b>> or <<"list", bs>>; dtype is <<"none">>, <<"type", T>> or
   <<"list", Ts>>. *)
ConstructorInputs ==
    { <<<<"a">>, <<"bool", TRUE>>, <<"none">>>>,
      <<<<"a">>, <<"bool", FALSE>>, <<"none">>>>,
      <<<<"a">>, <<"bool", FALSE>>, <<"type", Union({})>>>>,
      <<<<"a", "b">>, <<"bool", TRUE>>, <<"none">>>>,
      <<<<"a", "b">>, <<"bool", FALSE>>, <<"none">>>>,
      <<<<"a", "a">>, <<"bool", TRUE>>, <<"none">>>>,
      <<<<"a.b">>, <<"bool", TRUE>>, <<"none">>>> }

CastNames == {"a", "b", "c"}

CastDtypes == {Unknown, Primitive("number")}

(* Rows offered to add_data: every row of the table's width over Values, the
   rows of the documented scenarios, and rows of a wrong width *)
RowInputs ==
    LET n == Len(columns)
    IN  [1..n -> Values]
        \cup {<<Num(2)>>, <<Num(1), Str("x")>>, <<Str("y"), Str("z")>>}
        \cup {<<>>, <<Num(1)>>, <<Num(1), Num(1)>>, <<Num(1), Num(1), Num(1)>>}

Destinations == {"run", "artifact", "other"}

(* The tables stored as parts: <<columns, rows>> as source_artifact.get returns them *)
PartTables ==
    { [columns |-> <<"a">>, data |-> <<>>],
      [columns |-> <<"a">>, data |-> << <<Num(1)>> >>],
      [columns |-> <<"a">>, data |-> << <<Num(1)>>, <<Str("a")>> >>],
      [columns |-> <<"b">>, data |-> << <<Num(1)>> >>] }

(* No generator has been made *)
NoGenerator == [pc |-> "none", e |-> 0, r |-> 0, ndx |-> 0, columns |-> <<>>, peak |-> 0]

(* Rows of one image offered to add_data *)
ImageRowInputs == {<<Image(id)>> : id \in ImageIds}

(* Paths of tables that the caller adds to the artifact and that a JoinedTable names *)
TablePaths == {"x.table.json", "y.table.json", "z.table.json"}

(* The tables a JoinedTable is made of *)
JoinedInputs ==
    {<<"str", "x.table.json">>, <<"str", "y.table.json">>, <<"str", "z.table.json">>,
     <<"Table", "t">>,
     <<"PartitionedTable", "p">>, <<"ArtifactEntry", "x.table.json">>}

(* The rich values serialized on their own *)
RichValues ==
    {<<"Image", id>> : id \in ImageIds}
    \cup {<<"BoundingBoxes2D", "i2">>, <<"ImageMask", "i2">>, <<"Classes">>, <<"PartitionedTable">>}

(* The JoinedTables serialized *)
JoinedValues == {<<"JoinedTable", t1, t2>> : t1 \in JoinedInputs, t2 \in JoinedInputs}

(* The rich values that stage a file when they are bound *)
MediaKinds == {"Table", "Graph"}

Runs == {"run"}

---------------------------------------------------------------------------
(* State machine *)

(* Table(columns, optional=..., dtype=...) *)
TableInit(inputs) ==
    /\ \E c \in inputs :
          /\ columns = c[1]
          /\ ctor_optional = c[2]
          /\ ctor_dtype = c[3]
    /\ data = <<>>
    /\ column_types = _make_column_types(columns, ctor_dtype, ctor_optional)
    /\ cast_called = FALSE
    /\ op = "__init__"
    /\ err = ""
    /\ ret = <<>>
    /\ warned = FALSE
    /\ snap_alias = FALSE
    /\ snap_then = <<>>
    /\ snap_now = <<>>

(* Media.__init__ of the Table and of the Graph: no file, not bound; MEDIA_TMP is empty *)
MediaInit ==
    /\ tmp_files = <<>>
    /\ _path = [k \in MediaKinds |-> 0]
    /\ _run = [k \in MediaKinds |-> "none"]

(* No PartitionedTable, no generator *)
NoParts ==
    /\ parts = <<>>
    /\ _part = <<>>
    /\ gen = NoGenerator
    /\ yielded = <<>>

(* No val_to_json call *)
NoBatch ==
    /\ batch = <<>>
    /\ bind_log = <<>>
    /\ is_bound = {}

Init ==
    /\ TableInit(ConstructorInputs)
    /\ MediaInit
    /\ NoParts
    /\ manifest = {}
    /\ NoBatch

(* add_data that forgets the length check *)
add_data_no_shape_check(cells) ==
    /\ op' = "add_data"
    /\ UNCHANGED <<mediaVars, partVars, manifest, batchVars>>
    /\ ret' = <<>>
    /\ warned' = FALSE
    /\ UNCHANGED <<columns, ctor_optional, ctor_dtype, cast_called, snap_then, snap_now>>
    /\ IF Len(cells) < Len(columns)
       THEN /\ err' = "IndexError"
            /\ UNCHANGED <<data, column_types, snap_alias>>
       ELSE LET v == _validate_data(column_types, columns, cells)
            IN  /\ err' = v[1]
                /\ column_types' = v[2]
                /\ IF v[1] # ""
                   THEN UNCHANGED <<data, snap_alias>>
                   ELSE /\ (Len(data) + 1) * Len(columns) <= MaxCells
                        /\ snap_alias' = FALSE
                        /\ data' = Append(data, cells)

(* add_data that appends the row before it validates it *)
add_data_append_first(cells) ==
    /\ op' = "add_data"
    /\ UNCHANGED <<mediaVars, partVars, manifest, batchVars>>
    /\ ret' = <<>>
    /\ warned' = FALSE
    /\ UNCHANGED <<columns, ctor_optional, ctor_dtype, cast_called, snap_then, snap_now>>
    /\ IF Len(cells) # Len(columns)
       THEN /\ err' = "ValueError"
            /\ UNCHANGED <<data, column_types, snap_alias>>
       ELSE LET v == _validate_data(column_types, columns, cells)
            IN  /\ (Len(data) + 1) * Len(columns) <= MaxCells
                /\ data' = Append(data, cells)
                /\ err' = v[1]
                /\ column_types' = v[2]
                /\ snap_alias' = (snap_alias /\ v[1] # "")

(* Table.add_data: one call with the given cells.  A row is stored only
   while the table holds fewer than MaxCells cells. *)
add_data(cells) ==
    /\ op' = "add_data"
    /\ UNCHANGED <<mediaVars, partVars, manifest, batchVars>>
    /\ ret' = <<>>
    /\ warned' = FALSE
    /\ UNCHANGED <<columns, ctor_optional, ctor_dtype, cast_called, snap_then, snap_now>>
    /\ IF Len(cells) # Len(columns)
       THEN /\ err' = "ValueError"
            /\ UNCHANGED <<data, column_types, snap_alias>>
       ELSE LET v == _validate_data(column_types, columns, cells)
            IN  /\ err' = v[1]
                \* self._column_types = result_type: on success the table refers
                \* to a new object
                /\ column_types' = v[2]
                /\ IF v[1] # ""
                   THEN UNCHANGED <<data, snap_alias>>
                   ELSE /\ (Len(data) + 1) * Len(columns) <= MaxCells
                        /\ snap_alias' = FALSE
                        /\ data' = Append(data, cells)

(* Table.cast(col_name, dtype, optional) *)
cast(col_name, dtype, optional) ==
    LET c == cast_result(columns, data, column_types[2], col_name, dtype, optional)
    IN  /\ op' = "cast"
        /\ UNCHANGED <<mediaVars, partVars, manifest, batchVars>>
        /\ ret' = <<>>
        /\ warned' = FALSE
        /\ err' = c[1]
        /\ UNCHANGED <<columns, data, ctor_optional, ctor_dtype, snap_alias, snap_then>>
        \* self._column_types.params["type_map"][col_name] = wbtype: the DictType
        \* the table refers to is updated in place
        /\ column_types' = Record(c[2])
        /\ snap_now' = IF snap_alias THEN <<Record(c[2])>> ELSE snap_now
        /\ cast_called' = (cast_called \/ c[1] = "")

(* Table.to_json(run_or_artifact) *)
to_json(run_or_artifact) ==
    /\ op' = "to_json"
    /\ UNCHANGED <<columns, data, column_types, ctor_optional, ctor_dtype, cast_called,
                   snap_alias, snap_then, snap_now>>
    /\ UNCHANGED <<mediaVars, partVars, batchVars>>
    /\ LET b == Media_to_json(StagedPath(_path["Table"]), run_or_artifact, manifest)
       IN  IF run_or_artifact = "run"
           THEN /\ err' = ""
                /\ warned' = FALSE
                /\ manifest' = b[2]
                /\ ret' = << ("_type" :> "table-file") @@ ("ncols" :> Len(columns))
                               @@ ("nrows" :> Len(data)) @@ b[1] >>
           ELSE IF run_or_artifact = "artifact"
           THEN IF \E i \in 1..Len(columns) : HasPeriod(columns[i])
                THEN /\ err' = "ValueError"
                     /\ ret' = <<>>
                     /\ warned' = FALSE
                     /\ manifest' = b[2]
                ELSE LET t == _to_table_json(data, MAX_ARTIFACT_ROWS)
                         m == map_rows(t[2], 1, b[2])
                         mapped_data == m[2]
                     IN  /\ err' = m[1]
                         /\ warned' = t[1]
                         /\ manifest' = m[3]
                         /\ ret' = IF m[1] # "" THEN <<>>
                                   ELSE << [_type |-> "table",
                                            columns |-> columns,
                                            data |-> mapped_data,
                                            ncols |-> Len(columns),
                                            nrows |-> Len(mapped_data),
                                            column_types |-> type_to_json(column_types)] >>
           ELSE /\ err' = "ValueError"
                /\ ret' = <<>>
                /\ warned' = FALSE
                /\ manifest' = b[2]

(* The constructor call of Table.from_json: Table(columns=..., data=rows) adds
   the rows one by one to a table with the default column types;
   <<exception, column types, rows>> after rows i.. are added *)
RECURSIVE _init_from_list(_, _, _, _, _)
_init_from_list(rows, cols, types, acc, i) ==
    IF i > Len(rows) THEN <<"", types, acc>>
    ELSE IF Len(rows[i]) # Len(cols) THEN <<"ValueError", types, acc>>
    ELSE LET v == _validate_data(types, cols, rows[i])
         IN  IF v[1] # "" THEN <<v[1], types, acc>>
             ELSE _init_from_list(rows, cols, v[2], Append(acc, rows[i]), i + 1)

(* Table.from_json(json_obj, source_artifact): <<exception, <<the new table>> >> *)
from_json_result(json_obj) ==
    LET new_obj == _init_from_list(json_obj.data, json_obj.columns,
                                   _make_column_types(json_obj.columns, <<"none">>,
                                                      <<"bool", TRUE>>),
                                   <<>>, 1)
    IN  IF new_obj[1] # "" THEN <<new_obj[1], <<>>>>
        ELSE <<"", << [columns |-> json_obj.columns,
                       data |-> new_obj[3],
                       column_types |-> type_from_dict(json_obj.column_types)] >> >>

(* Table.from_json applied to the JSON the last to_json(artifact) returned *)
from_json ==
    /\ op = "to_json"
    /\ err = ""
    /\ ret[1]._type = "table"
    /\ LET r == from_json_result(ret[1])
       IN  /\ op' = "from_json"
           /\ err' = r[1]
           /\ ret' = r[2]
    /\ warned' = FALSE
    /\ UNCHANGED <<columns, data, column_types, ctor_optional, ctor_dtype, cast_called,
                   snap_alias, snap_then, snap_now>>
    /\ UNCHANGED <<mediaVars, partVars, manifest, batchVars>>

(* to_json of a rich value other than a Table, by its class:
   <<exception, JSON, manifest after the call>>.  JoinedTable.to_json calls
   artifact.add or reads artifact._manifest, which a run does not have. *)
WBValue_to_json(v, dest, man) ==
    CASE v[1] = "Image" -> Image_to_json(Image(v[2])[2], dest, man)
      [] v[1] = "BoundingBoxes2D" -> BoundingBoxes2D_to_json(v[2], dest, man)
      [] v[1] = "ImageMask" -> ImageMask_to_json(v[2], dest, man)
      [] v[1] = "Classes" -> Classes_to_json(dest, man)
      [] v[1] = "PartitionedTable" -> PartitionedTable_to_json(dest, man)
      [] v[1] = "JoinedTable" ->
            IF dest = "artifact" THEN JoinedTable_to_json(v[2], v[3], man)
            ELSE <<"AttributeError", <<>>, man>>

(* v.to_json(dest) of a rich value v; op is the class of v *)
value_to_json(v, dest) ==
    LET j == WBValue_to_json(v, dest, manifest)
    IN  /\ op' = v[1]
        /\ err' = j[1]
        /\ ret' = IF j[1] # "" THEN <<>> ELSE <<j[2]>>
        /\ warned' = FALSE
        /\ manifest' = j[3]
        /\ UNCHANGED <<columns, data, column_types, ctor_optional, ctor_dtype, cast_called,
                       snap_alias, snap_then, snap_now>>
        /\ UNCHANGED <<mediaVars, partVars, batchVars>>

(* artifact.add(table, name) by the caller: a table is registered under path *)
artifact_add(path) ==
    /\ manifest' = artifact_add_result(path, manifest)[2]
    /\ UNCHANGED <<tableVars, mediaVars, partVars, batchVars>>

(* Media.bind_to_run(run, key, step): the value is bound to the run *)
Media_bind_to_run(bound, kind, run) == [bound EXCEPT ![kind] = run]

(* bind_to_run that cuts the rows at the artifact cap *)
bind_to_run_artifact_cap(run) ==
    LET t == _to_table_json(data, MAX_ARTIFACT_ROWS)
    IN  /\ Len(tmp_files) < MaxFiles
        /\ op' = "bind_to_run"
        /\ err' = ""
        /\ ret' = <<>>
        /\ warned' = t[1]
        /\ tmp_files' = Append(tmp_files, <<".table.json", [columns |-> columns, data |-> t[2]]>>)
        /\ _path' = [_path EXCEPT !["Table"] = Len(tmp_files) + 1]
        /\ _run' = Media_bind_to_run(_run, "Table", run)
        /\ UNCHANGED <<columns, data, column_types, ctor_optional, ctor_dtype, cast_called,
                       snap_alias, snap_then, snap_now>>
        /\ UNCHANGED <<partVars, manifest, batchVars>>

(* Table.bind_to_run(run, key, step): _to_table_json() with max_rows=None cuts
   at Table.MAX_ROWS, the rows are written to a new file of MEDIA_TMP, which
   becomes the table's file, and the table is bound *)
bind_to_run(run) ==
    LET t == _to_table_json(data, MAX_ROWS)
    IN  /\ Len(tmp_files) < MaxFiles
        /\ op' = "bind_to_run"
        /\ err' = ""
        /\ ret' = <<>>
        /\ warned' = t[1]
        /\ tmp_files' = Append(tmp_files, <<".table.json", [columns |-> columns, data |-> t[2]]>>)
        /\ _path' = [_path EXCEPT !["Table"] = Len(tmp_files) + 1]
        /\ _run' = Media_bind_to_run(_run, "Table", run)
        /\ UNCHANGED <<columns, data, column_types, ctor_optional, ctor_dtype, cast_called,
                       snap_alias, snap_then, snap_now>>
        /\ UNCHANGED <<partVars, manifest, batchVars>>

(* Graph._to_graph_json of the graph of the model: no node, no edge *)
_to_graph_json == [format |-> "keras", nodes |-> <<>>, edges |-> <<>>]

(* Graph.bind_to_run(run, key, step): the graph is written to a new file of
   MEDIA_TMP, which becomes the graph's file; then a bound graph returns *)
Graph_bind_to_run(run) ==
    /\ Len(tmp_files) < MaxFiles
    /\ op' = "Graph.bind_to_run"
    /\ err' = ""
    /\ ret' = <<>>
    /\ warned' = FALSE
    /\ tmp_files' = Append(tmp_files, <<".graph.json", _to_graph_json>>)
    /\ _path' = [_path EXCEPT !["Graph"] = Len(tmp_files) + 1]
    /\ _run' = IF _run["Graph"] # "none" THEN _run
               ELSE Media_bind_to_run(_run, "Graph", run)
    /\ UNCHANGED <<columns, data, column_types, ctor_optional, ctor_dtype, cast_called,
                   snap_alias, snap_then, snap_now>>
    /\ UNCHANGED <<partVars, manifest, batchVars>>

(* _TableType.from_obj(table): another object keeps a reference to the table's
   current _column_types *)
from_obj ==
    /\ snap_then = <<>>
    /\ UNCHANGED <<mediaVars, partVars, manifest, batchVars>>
    /\ snap_alias' = TRUE
    /\ snap_then' = <<column_types>>
    /\ snap_now' = <<column_types>>
    /\ UNCHANGED <<columns, data, column_types, ctor_optional, ctor_dtype, cast_called,
                   op, err, ret, warned>>

Next ==
    \/ \E cells \in RowInputs : add_data(cells)
    \/ \E col_name \in CastNames, dtype \in CastDtypes, optional \in BOOLEAN :
            cast(col_name, dtype, optional)
    \/ \E run_or_artifact \in Destinations : to_json(run_or_artifact)

Spec == Init /\ [][Next]_vars

(* The table operations on a one-column table, with a second object holding a
   reference to its column types *)
InitAlias == Init /\ columns = <<"a">>

NextAlias == Next \/ from_obj

SpecAlias == InitAlias /\ [][NextAlias]_vars

---------------------------------------------------------------------------
(* PartitionedTable.iterrows.  The generator is run one statement at a time;
   gen.pc is the statement it is at:
     "for"     at the head of the loop over _loaded_part_entries, entry gen.e next
     "check"   after get_part(), before the comparison of the columns
     "rows"    at the head of the loop over the rows of the part, row gen.r next
     "yielded" suspended at the yield
     "done"    returned (StopIteration), "raised" ended by the ValueError,
     "closed"  closed by its caller while suspended (the caller left its loop) *)

PartsLoaded == {e \in 1..Len(_part) : _part[e]}

Max(a, b) == IF a > b THEN a ELSE b

(* PartitionedTable.iterrows(): a new generator for a caller that has none running *)
iterrows ==
    /\ gen.pc \in {"none", "done", "raised", "closed"}
    /\ gen' = [pc |-> "for", e |-> 1, r |-> 0, ndx |-> 0, columns |-> <<>>,
               peak |-> Cardinality(PartsLoaded)]
    /\ yielded' = <<>>
    /\ UNCHANGED <<parts, _part>>
    /\ UNCHANGED <<tableVars, mediaVars, manifest, batchVars>>

(* part = self._loaded_part_entries[entry_path].get_part() *)
get_part ==
    /\ gen.pc = "for"
    /\ gen.e <= Len(parts)
    /\ _part' = [_part EXCEPT ![gen.e] = TRUE]
    /\ gen' = [gen EXCEPT !.pc = "check",
                          !.peak = Max(gen.peak, Cardinality(PartsLoaded \cup {gen.e}))]
    /\ UNCHANGED <<parts, yielded>>
    /\ UNCHANGED <<tableVars, mediaVars, manifest, batchVars>>

(* The loop over the entries is exhausted: the generator returns *)
stop ==
    /\ gen.pc = "for"
    /\ gen.e > Len(parts)
    /\ gen' = [gen EXCEPT !.pc = "done"]
    /\ UNCHANGED <<parts, _part, yielded>>
    /\ UNCHANGED <<tableVars, mediaVars, manifest, batchVars>>

(* The comparison of the columns that never raises *)
check_columns_never_raises ==
    /\ gen.pc = "check"
    /\ gen' = [gen EXCEPT !.pc = "rows", !.r = 1,
                          !.columns = IF gen.columns = <<>> THEN <<parts[gen.e].columns>>
                                      ELSE gen.columns]
    /\ UNCHANGED <<parts, _part, yielded>>
    /\ UNCHANGED <<tableVars, mediaVars, manifest, batchVars>>

(* if columns is None: columns = part.columns / elif columns != part.columns: raise *)
check_columns ==
    /\ gen.pc = "check"
    /\ gen' = IF gen.columns = <<>>
              THEN [gen EXCEPT !.pc = "rows", !.r = 1, !.columns = <<parts[gen.e].columns>>]
              ELSE IF gen.columns[1] # parts[gen.e].columns
              THEN [gen EXCEPT !.pc = "raised"]
              ELSE [gen EXCEPT !.pc = "rows", !.r = 1]
    /\ UNCHANGED <<parts, _part, yielded>>
    /\ UNCHANGED <<tableVars, mediaVars, manifest, batchVars>>

(* yield ndx, row *)
yield_row ==
    /\ gen.pc = "rows"
    /\ gen.r <= Len(parts[gen.e].data)
    /\ yielded' = Append(yielded, <<gen.ndx, parts[gen.e].data[gen.r]>>)
    /\ gen' = [gen EXCEPT !.pc = "yielded"]
    /\ UNCHANGED <<parts, _part>>
    /\ UNCHANGED <<tableVars, mediaVars, manifest, batchVars>>

(* The caller asks for the next pair, and the index is not advanced *)
resume_no_increment ==
    /\ gen.pc = "yielded"
    /\ gen' = [gen EXCEPT !.pc = "rows", !.r = gen.r + 1]
    /\ UNCHANGED <<parts, _part, yielded>>
    /\ UNCHANGED <<tableVars, mediaVars, manifest, batchVars>>

(* The caller asks for the next pair: ndx += 1 and the loop over the rows goes on *)
resume ==
    /\ gen.pc = "yielded"
    /\ gen' = [gen EXCEPT !.pc = "rows", !.r = gen.r + 1, !.ndx = gen.ndx + 1]
    /\ UNCHANGED <<parts, _part, yielded>>
    /\ UNCHANGED <<tableVars, mediaVars, manifest, batchVars>>

(* The rows of the part are exhausted: self._loaded_part_entries[entry_path].free() *)
free ==
    /\ gen.pc = "rows"
    /\ gen.r > Len(parts[gen.e].data)
    /\ _part' = [_part EXCEPT ![gen.e] = FALSE]
    /\ gen' = [gen EXCEPT !.pc = "for", !.e = gen.e + 1]
    /\ UNCHANGED <<parts, yielded>>
    /\ UNCHANGED <<tableVars, mediaVars, manifest, batchVars>>

(* The caller leaves its loop: the suspended generator is closed (GeneratorExit
   at the yield), the statements after the yield are not run *)
close ==
    /\ gen.pc = "yielded"
    /\ gen' = [gen EXCEPT !.pc = "closed"]
    /\ UNCHANGED <<parts, _part, yielded>>
    /\ UNCHANGED <<tableVars, mediaVars, manifest, batchVars>>

(* PartitionedTable.from_json: one entry per table under parts_path, none loaded *)
InitParts ==
    /\ TableInit({<<<<"a">>, <<"bool", TRUE>>, <<"none">>>>})
    /\ MediaInit
    /\ manifest = {}
    /\ NoBatch
    /\ \E n \in 0..MaxParts : parts \in [1..n -> PartTables]
    /\ _part = [e \in 1..Len(parts) |-> FALSE]
    /\ gen = NoGenerator
    /\ yielded = <<>>

NextParts ==
    \/ iterrows
    \/ get_part
    \/ stop
    \/ check_columns
    \/ yield_row
    \/ resume
    \/ free
    \/ close

SpecParts == InitParts /\ [][NextParts]_vars

(* A one-column Table of images, the rich values and one artifact *)
InitArtifact == Init /\ columns = <<"a">> /\ ctor_optional = <<"bool", TRUE>>

NextArtifact ==
    \/ \E cells \in ImageRowInputs : add_data(cells)
    \/ \E run_or_artifact \in Destinations : to_json(run_or_artifact)
    \/ \E v \in RichValues, dest \in Destinations : value_to_json(v, dest)

SpecArtifact == InitArtifact /\ [][NextArtifact]_vars

(* JoinedTables serialized toward an artifact to which the caller adds tables *)
NextJoined ==
    \/ \E v \in JoinedValues, dest \in Destinations : value_to_json(v, dest)
    \/ \E path \in TablePaths : artifact_add(path)

SpecJoined == InitArtifact /\ [][NextJoined]_vars

(* The table operations, and Table.from_json on the JSON that to_json returned *)
NextJson == Next \/ from_json

SpecJson == Init /\ [][NextJson]_vars

(* A one-column Table and a Graph that are bound to a run *)
InitBind == Init /\ columns = <<"a">> /\ ctor_optional = <<"bool", TRUE>>

(* Rows offered to add_data before and between the bind_to_run calls *)
BindRowInputs == {<<Num(1)>>, <<Num(2)>>, <<Str("a")>>}

NextBind ==
    \/ \E cells \in BindRowInputs : add_data(cells)
    \/ \E run_or_artifact \in Destinations : to_json(run_or_artifact)
    \/ \E run \in Runs : bind_to_run(run)
    \/ \E run \in Runs : Graph_bind_to_run(run)

SpecBind == InitBind /\ [][NextBind]_vars

---------------------------------------------------------------------------
(* Properties *)

Number == Primitive("number")
String == Primitive("string")

(* The column-type record the constructor built *)
InitialTypes == _make_column_types(columns, ctor_dtype, ctor_optional)

(* Batch recompute: assign folded over the rows, in order, from T *)
RECURSIVE fold_assign(_, _, _, _)
fold_assign(T, cols, rows, i) ==
    IF i > Len(rows) THEN T
    ELSE fold_assign(assign_record(T, incoming_data_dict(cols, rows[i])), cols, rows, i + 1)

UniqueColumns == \A i, j \in 1..Len(columns) : columns[i] = columns[j] => i = j

(* Table(columns=["a","b"]) with no other argument, not cast since *)
DefaultTableAB ==
    /\ columns = <<"a", "b">>
    /\ ctor_optional = <<"bool", TRUE>>
    /\ ctor_dtype = <<"none">>
    /\ ~cast_called

(* A one-column table whose column starts as Unknown: optional=False, no dtype *)
UnknownTableA ==
    /\ columns = <<"a">>
    /\ ctor_optional = <<"bool", FALSE>>
    /\ ctor_dtype = <<"none">>
    /\ ~cast_called

(* A one-column table whose column is declared as an empty union *)
UnionTableA ==
    /\ columns = <<"a">>
    /\ ctor_optional = <<"bool", FALSE>>
    /\ ctor_dtype = <<"type", Union({})>>
    /\ ~cast_called

(* C1: add_data with a number of cells different from the number of columns
   fails with a shape error (ValueError) and leaves the rows and the
   column-type record exactly as they were. *)
C1_ShapeErrorLeavesTable ==
    [][op' = "add_data" =>
          \A cells \in RowInputs :
              (Len(cells) # Len(columns) /\ add_data(cells))
                  => (err' = "ValueError" /\ data' = data /\ column_types' = column_types)]_vars

C1_Witness == op = "add_data" /\ err = "ValueError" /\ Len(data) >= 1

(* C2: add_data with a row whose narrowing of the column-type record is
   Invalid fails with a type error, appends no row and leaves the type of
   every column unchanged. *)
C2_TypeErrorNoPartialAppend ==
    [][op' = "add_data" =>
          \A cells \in RowInputs :
              (/\ Len(cells) = Len(columns)
               /\ IsInvalid(assign_record(column_types, incoming_data_dict(columns, cells)))
               /\ add_data(cells))
                  => (err' = "TypeError" /\ data' = data /\ column_types' = column_types)]_vars

C2_Witness ==
    /\ columns = <<"a", "b">>
    /\ op = "add_data"
    /\ err = "TypeError"
    /\ data = << <<NoneVal, Str("a")>> >>

(* C3, as amended: while no cast has been made, the column-type record equals
   assign folded over the stored rows from the record the constructor built
   (Optional(Unknown) per column by default). *)
C3_IncrementalEqualsFoldFromInitial ==
    ~cast_called => column_types = fold_assign(InitialTypes, columns, data, 1)

(* C3 as stated: the fold starts from Unknown. *)
C3_Original ==
    (~cast_called /\ data # <<>>) => column_types = fold_assign(Unknown, columns, data, 1)

C3_Witness ==
    /\ ~cast_called
    /\ ctor_optional = <<"bool", TRUE>>
    /\ Len(data) >= 2
    /\ column_types # InitialTypes

(* C4: every stored row has as many cells as the table has columns. *)
C4_RowLengthIsColumnCount ==
    \A i \in 1..Len(data) : Len(data[i]) = Len(columns)

C4_Witness == Len(data) >= 2 /\ cast_called /\ op = "add_data" /\ err = "ValueError"

(* C5: a cast whose walk over the existing values of the column meets an
   incompatible value raises a type error and leaves the type of that column,
   the types of the other columns and the rows unchanged. *)
C5_FailedCastLeavesTable ==
    [][op' = "cast" =>
          \A col_name \in CastNames, dtype \in CastDtypes, optional \in BOOLEAN :
              (/\ col_name \in Range(columns)
               /\ IsInvalid(cast_rows(IF optional THEN Optional(dtype) ELSE dtype,
                                      data, index(columns, col_name), 1))
               /\ cast(col_name, dtype, optional))
                  => (err' = "TypeError" /\ column_types' = column_types /\ data' = data)]_vars

C5_Witness == op = "cast" /\ err = "TypeError" /\ Len(data) >= 1

(* C6: right after a successful cast, add_data of a copy of any stored row
   is accepted by _validate_data. *)
C6_Original ==
    (op = "cast" /\ err = "")
        => \A i \in 1..Len(data) : _validate_data(column_types, columns, data[i])[1] = ""

(* C7, as amended: on Table(columns=["a","b"]) add_data(1, "x") succeeds and
   the column types become Record({a: Optional(number), b: Optional(string)});
   a following add_data("y", "z") fails with a type error. *)
C7_DefaultTableScenario ==
    [][/\ (DefaultTableAB /\ data = <<>> /\ add_data(<<Num(1), Str("x")>>))
            => /\ err' = ""
               /\ data' = << <<Num(1), Str("x")>> >>
               /\ column_types' = Record([a |-> Optional(Number), b |-> Optional(String)])
       /\ (DefaultTableAB /\ data = << <<Num(1), Str("x")>> >>
                          /\ add_data(<<Str("y"), Str("z")>>))
            => /\ err' = "TypeError"
               /\ UNCHANGED <<data, column_types>>]_vars

(* C7 as stated: the column types become Record({a: number, b: string}). *)
C7_Original ==
    [][(DefaultTableAB /\ data = <<>> /\ add_data(<<Num(1), Str("x")>>))
            => /\ err' = ""
               /\ column_types' = Record([a |-> Number, b |-> String])]_vars

C7_Witness ==
    /\ DefaultTableAB
    /\ data = << <<Num(1), Str("x")>> >>
    /\ op = "add_data"
    /\ err = "TypeError"

(* C8, as amended: on a fresh Unknown column 1 narrows the type to number,
   "a" is then rejected with a type error and changes nothing, and 2 is
   accepted; a column declared as a union takes 1, "a", 2 and ends as
   Union({number, string}). *)
C8_UnknownColumnScenario ==
    [][/\ (UnknownTableA /\ data = <<>> /\ add_data(<<Num(1)>>))
            => (err' = "" /\ column_types' = Record([a |-> Number]))
       /\ (UnknownTableA /\ data = << <<Num(1)>> >> /\ add_data(<<Str("a")>>))
            => (err' = "TypeError" /\ UNCHANGED <<data, column_types>>)
       /\ (UnknownTableA /\ data = << <<Num(1)>> >> /\ add_data(<<Num(2)>>))
            => (err' = "" /\ column_types' = Record([a |-> Number]))
       /\ (UnionTableA /\ data = << <<Num(1)>>, <<Str("a")>> >> /\ add_data(<<Num(2)>>))
            => (err' = "" /\ column_types' = Record([a |-> Union({Number, String})]))]_vars

(* C8 as stated: after 1, the value "a" is accepted by the fresh Unknown column. *)
C8_Original ==
    [][(UnknownTableA /\ data = << <<Num(1)>> >> /\ add_data(<<Str("a")>>))
            => err' = ""]_vars

C8_Witness ==
    /\ UnknownTableA
    /\ data = << <<Num(1)>> >>
    /\ op = "add_data"
    /\ err = "TypeError"

(* C9: a column-type record taken from the table keeps the content it had
   when it was taken, whatever add_data and cast calls follow. *)
C9_Original == snap_then # <<>> => snap_now = snap_then

(* C10, as amended: to_json toward an artifact, for a table none of whose
   column names contains a period, returns nrows = min(n, MAX_ARTIFACT_ROWS),
   data = the first nrows rows in order and ncols = the column count, warns
   exactly when n > MAX_ARTIFACT_ROWS and does not raise; with a period in a
   column name it raises ValueError. *)
C10_ArtifactJsonTruncates ==
    [][to_json("artifact") =>
          IF \E i \in 1..Len(columns) : HasPeriod(columns[i])
          THEN err' = "ValueError" /\ ret' = <<>>
          ELSE /\ err' = ""
               /\ ret'[1].nrows = Min(Len(data), MAX_ARTIFACT_ROWS)
               /\ ret'[1].data = SubSeq(data, 1, ret'[1].nrows)
               /\ ret'[1].ncols = Len(columns)
               /\ warned' = (Len(data) > MAX_ARTIFACT_ROWS)]_vars

(* C10 as stated: to_json toward an artifact never raises. *)
C10_Original == [][to_json("artifact") => err' = ""]_vars

C10_Witness ==
    /\ op = "to_json"
    /\ err = ""
    /\ warned
    /\ Len(data) > MAX_ARTIFACT_ROWS
    /\ ret[1].nrows = MAX_ARTIFACT_ROWS

---------------------------------------------------------------------------
(* val_to_json on a sequence of rich values *)

(* The size of Image._image: i1 is 1x1, the other images are 2x2 *)
ImageSize(id) == IF id = "i1" THEN 1 ELSE 2

(* The file of an Audio, set by its constructor *)
AudioPath(id) == "media/audio/a1.wav"

(* The rich values put in the sequences: two Images and an Audio (BatchableMedia)
   and a Classes (Media, not batchable) *)
BatchItems == {<<"Image", "i1">>, <<"Image", "i2">>, <<"Audio", "a1">>, <<"Classes">>}

(* The sequences handed to val_to_json *)
BatchInputs == UNION {[1..n -> BatchItems] : n \in 0..MaxSeq}

(* isinstance(v, BatchableMedia) *)
isBatchableMedia(v) == v[1] \in {"Image", "Audio"}

(* prune_max_seq that keeps every item *)
prune_max_seq_keeps_all(seq) == seq

(* prune_max_seq: only Image has MAX_ITEMS *)
prune_max_seq(seq) ==
    IF seq[1][1] = "Image" /\ MAX_ITEMS < Len(seq) THEN SubSeq(seq, 1, MAX_ITEMS) ELSE seq

(* item.bind_to_run: the set of values bound to the run after the call; an Image
   binds its boxes and its masks too *)
item_bind_to_run(bnd, v) ==
    IF v[1] = "Image"
    THEN bnd \cup {v}
             \cup (IF Image(v[2])[2].boxes THEN {<<"BoundingBoxes2D", v[2]>>} ELSE {})
             \cup (IF Image(v[2])[2].masks THEN {<<"ImageMask", v[2]>>} ELSE {})
    ELSE bnd \cup {v}

(* Audio.to_json(run) *)
Audio_to_json(id, dest, man) ==
    LET b == Media_to_json(AudioPath(id), dest, man)
    IN  <<"", <<"dict", ("_type" :> "audio-file") @@ ("sample_rate" :> 1)
                          @@ ("caption" :> "None") @@ b[1]>>, b[2]>>

(* v.to_json(run) of an item of the sequence: the JSON *)
item_to_json(v) ==
    IF v[1] = "Audio" THEN Audio_to_json(v[2], "run", {})[2]
    ELSE WBValue_to_json(v, "run", {})[2]

(* Image.all_masks: one group per image, "None" for an image without masks;
   FALSE when no image has any *)
all_masks(images) ==
    IF \A i \in 1..Len(images) : ~Image(images[i][2])[2].masks THEN <<"bool", FALSE>>
    ELSE <<"list", [i \in 1..Len(images) |->
                       IF Image(images[i][2])[2].masks
                       THEN [k |-> ImageMask_to_json(images[i][2], "run", {})[2]]
                       ELSE "None"]>>

(* Image.all_boxes: likewise for the boxes *)
all_boxes(images) ==
    IF \A i \in 1..Len(images) : ~Image(images[i][2])[2].boxes THEN <<"bool", FALSE>>
    ELSE <<"list", [i \in 1..Len(images) |->
                       IF Image(images[i][2])[2].boxes
                       THEN [k |-> BoundingBoxes2D_to_json(images[i][2], "run", {})[2]]
                       ELSE "None"]>>

(* Image.seq_to_json: <<exception, JSON, a warning was logged>> *)
Image_seq_to_json(images) ==
    LET jsons == [i \in 1..Len(images) |-> item_to_json(images[i])]
        width == ImageSize(images[1][2])
        sizes_match == \A i \in 1..Len(images) : ImageSize(images[i][2]) = width
        meta == [_type |-> "images/separated", width |-> width, height |-> width,
                 format |-> jsons[1][2]["format"], count |-> Len(images)]
        with_masks == IF all_masks(images)[1] = "list"
                      THEN ("all_masks" :> all_masks(images)) @@ meta ELSE meta
        with_boxes == IF all_boxes(images)[1] = "list"
                      THEN ("all_boxes" :> all_boxes(images)) @@ with_masks
                      ELSE with_masks
    IN  IF \E i \in 1..Len(images) : jsons[i][2]["path"] # ImagePath(images[i][2])
        THEN <<"ValueError", <<>>, FALSE>>
        ELSE <<"", <<"dict", with_boxes>>, ~sizes_match>>

(* Audio.seq_to_json *)
Audio_seq_to_json(seq) ==
    <<"", <<"dict", [_type |-> "audio", count |-> Len(seq),
                     audio |-> [i \in 1..Len(seq) |-> item_to_json(seq[i])],
                     sampleRates |-> [i \in 1..Len(seq) |-> 1],
                     durations |-> [i \in 1..Len(seq) |-> "None"]]>>, FALSE>>

(* items[0].seq_to_json(items, run, key, namespace) *)
seq_to_json(items) ==
    IF items[1][1] = "Image" THEN Image_seq_to_json(items) ELSE Audio_seq_to_json(items)

(* The calls val_to_json(run, key, v) on the items from the k-th on, each binding
   a Media that is not bound, with no id_: <<bound after, bind_to_run calls>> *)
RECURSIVE bind_each(_, _, _, _)
bind_each(val, k, bnd, log) ==
    IF k > Len(val) THEN <<bnd, log>>
    ELSE IF val[k] \in bnd THEN bind_each(val, k + 1, bnd, log)
    ELSE bind_each(val, k + 1, item_bind_to_run(bnd, val[k]), Append(log, <<val[k], "None">>))

(* The bind_to_run(run, key, namespace, id_=i) calls on the kept items, in order *)
RECURSIVE bind_items(_, _, _)
bind_items(items, k, bnd) ==
    IF k > Len(items) THEN bnd
    ELSE bind_items(items, k + 1, item_bind_to_run(bnd, items[k]))

(* val_to_json(run, key, val, namespace) on a sequence of rich values *)
val_to_json(val) ==
    /\ batch' = val
    /\ op' = "val_to_json"
    /\ IF /\ Len(val) > 0
          /\ isBatchableMedia(val[1])
          /\ \A i \in 1..Len(val) : val[i][1] = val[1][1]
       THEN LET items == prune_max_seq(val)
                j == seq_to_json(items)
            IN  /\ bind_log' = [i \in 1..Len(items) |-> <<items[i], i - 1>>]
                /\ is_bound' = bind_items(items, 1, is_bound)
                /\ err' = j[1]
                /\ ret' = IF j[1] # "" THEN <<>> ELSE <<j[2]>>
                /\ warned' = (Len(items) < Len(val) \/ j[3])
       ELSE LET b == bind_each(val, 1, is_bound, <<>>)
            IN  /\ bind_log' = b[2]
                /\ is_bound' = b[1]
                /\ err' = ""
                /\ ret' = << <<"list", [i \in 1..Len(val) |-> item_to_json(val[i])]>> >>
                /\ warned' = FALSE
    /\ UNCHANGED <<columns, data, column_types, ctor_optional, ctor_dtype, cast_called,
                   snap_alias, snap_then, snap_now>>
    /\ UNCHANGED <<mediaVars, partVars, manifest>>

InitBatch == Init /\ columns = <<"a">> /\ ctor_optional = <<"bool", TRUE>>

NextBatch == \E val \in BatchInputs : val_to_json(val)

SpecBatch == InitBatch /\ [][NextBatch]_vars

---------------------------------------------------------------------------
(* C11: bind_to_run stages exactly the first min(n, MAX_ROWS) rows, in order,
   warns exactly when n > MAX_ROWS and does not raise; to_json toward an
   artifact of the same table keeps the first min(n, MAX_ARTIFACT_ROWS) rows
   and warns exactly when n > MAX_ARTIFACT_ROWS: each cap is applied on its
   own. *)
C11_CapsAppliedIndependently ==
    [][/\ (\E run \in Runs : bind_to_run(run))
            => /\ err' = ""
               /\ tmp_files'[_path'["Table"]][2].data = SubSeq(data, 1, Min(Len(data), MAX_ROWS))
               /\ warned' = (Len(data) > MAX_ROWS)
       /\ to_json("artifact")
            => /\ err' = ""
               /\ ret'[1].data = SubSeq(data, 1, Min(Len(data), MAX_ARTIFACT_ROWS))
               /\ ret'[1].nrows = Min(Len(data), MAX_ARTIFACT_ROWS)
               /\ warned' = (Len(data) > MAX_ARTIFACT_ROWS)]_vars

C11_Witness ==
    /\ op = "to_json"
    /\ err = ""
    /\ ret[1]._type = "table"
    /\ ~warned
    /\ Len(data) = MAX_ARTIFACT_ROWS
    /\ ret[1].nrows = MAX_ARTIFACT_ROWS
    /\ _path["Table"] # 0
    /\ Len(tmp_files[_path["Table"]][2].data) = MAX_ROWS

(* C12: Table.from_json of the JSON that to_json returned toward an artifact
   does not raise and yields a table with the columns and the column-type
   record of the original and its first min(n, MAX_ARTIFACT_ROWS) rows. *)
C12_Original ==
    [][from_json
          => /\ err' = ""
             /\ ret'[1].columns = columns
             /\ ret'[1].column_types = column_types
             /\ ret'[1].data = SubSeq(data, 1, Min(Len(data), MAX_ARTIFACT_ROWS))]_vars

(* C16: bind_to_run on a Table or a Graph that is already bound to the run
   writes no new staging file and leaves the value's file unchanged. *)
C16_Original ==
    [][\A run \in Runs :
          /\ (_run["Table"] = run /\ bind_to_run(run))
                => (Len(tmp_files') = Len(tmp_files) /\ _path'["Table"] = _path["Table"])
          /\ (_run["Graph"] = run /\ Graph_bind_to_run(run))
                => (Len(tmp_files') = Len(tmp_files) /\ _path'["Graph"] = _path["Graph"])]_vars

(* The first part whose columns differ from the columns of the first part,
   Len(ps) + 1 when all parts have the same columns *)
FirstDivergent(ps) ==
    IF \E i \in 1..Len(ps) : ps[i].columns # ps[1].columns
    THEN CHOOSE i \in 1..Len(ps) :
            /\ ps[i].columns # ps[1].columns
            /\ \A j \in 1..(i - 1) : ps[j].columns = ps[1].columns
    ELSE Len(ps) + 1

(* The rows of the parts 1..k, in part order then row order *)
RECURSIVE RowsOfParts(_, _)
RowsOfParts(ps, k) == IF k = 0 THEN <<>> ELSE RowsOfParts(ps, k - 1) \o ps[k].data

(* The rows paired with the indexes 0, 1, ... *)
Indexed(rows) == [i \in 1..Len(rows) |-> <<i - 1, rows[i]>>]

IsPrefix(s, t) == Len(s) <= Len(t) /\ s = SubSeq(t, 1, Len(s))

(* C13: over parts with identical columns a pass that runs to its end has
   yielded every row of every part exactly once, in part order then row order,
   with the indexes 0 .. total_rows - 1; while it runs it has yielded a prefix
   of that sequence. *)
C13_EveryRowOnceInOrder ==
    FirstDivergent(parts) > Len(parts)
        => /\ IsPrefix(yielded, Indexed(RowsOfParts(parts, Len(parts))))
           /\ gen.pc = "done" => yielded = Indexed(RowsOfParts(parts, Len(parts)))

C13_Witness ==
    /\ gen.pc = "done"
    /\ Len(parts) = 3
    /\ parts[2].data = <<>>
    /\ Len(yielded) = 3

(* C14: when a pass has run to its end, at most one part was loaded at any
   step of it and no part is loaded. *)
C14_Original ==
    gen.pc = "done" => (gen.peak <= 1 /\ PartsLoaded = {})

(* C15: the pass fails at the first part whose columns differ from the first
   part's: no row of that part or of a later part is ever yielded, at the
   error all rows of the preceding parts have been yielded, a pass over such
   parts never ends normally, and after the error the generator yields
   nothing more. *)
C15_FailsAtFirstDivergentPart ==
    /\ [](LET D == FirstDivergent(parts)
              before == Indexed(RowsOfParts(parts, D - 1))
          IN  /\ IsPrefix(yielded, before)
              /\ gen.pc = "raised" => (D <= Len(parts) /\ gen.e = D /\ yielded = before)
              /\ gen.pc = "done" => D > Len(parts))
    /\ [][gen.pc = "raised" => (UNCHANGED <<gen, yielded>> \/ iterrows)]_vars

C15_Witness ==
    /\ gen.pc = "raised"
    /\ Len(parts) = 3
    /\ gen.e = 2
    /\ Len(yielded) = 2

(* A JSON object that carries a _type discriminant *)
HasTypeTag(json) == json[1] = "dict" /\ "_type" \in DOMAIN json[2]

(* C17: every JSON value that a rich value's to_json returns, toward a run or
   toward an artifact, is an object with a _type key. *)
C17_Original ==
    [][/\ \A dest \in {"run", "artifact"} :
             (to_json(dest) /\ err' = "") => "_type" \in DOMAIN ret'[1]
       /\ \A v \in RichValues, dest \in {"run", "artifact"} :
             (value_to_json(v, dest) /\ err' = "") => HasTypeTag(ret'[1])]_vars

(* C18: JoinedTable.to_json(artifact) either returns JSON whose table1 and
   table2 are entries of the artifact's manifest, or raises and returns
   nothing. *)
C18_JoinedPathsAreManifestEntries ==
    [][\A v \in JoinedValues :
          value_to_json(v, "artifact")
              => \/ /\ err' = ""
                    /\ ret'[1][2].table1 \in manifest'
                    /\ ret'[1][2].table2 \in manifest'
                 \/ /\ err' = "ValueError"
                    /\ ret' = <<>>]_vars

C18_Witness ==
    /\ op = "JoinedTable"
    /\ err = ""
    /\ ret[1][2].table1 = "x.table.json"
    /\ ret[1][2].table2 = "t2.table.json"
    /\ "y.table.json" \notin manifest

(* The image cells of the rows *)
ImageCells(rows) ==
    UNION {{rows[i][j][2] : j \in {k \in 1..Len(rows[i]) : rows[i][k][1] = "image"}} :
              i \in 1..Len(rows)}

(* C19: when Table.to_json toward an artifact returns, the file of every
   image cell it serialized and the Classes object of every such image are
   entries of that artifact, and the cell's JSON names them; Image.to_json
   toward an artifact registers the image's Classes object and returns its
   entry path; an image with boxes or masks and no classes makes Image.to_json,
   and the to_json of a table that holds it, raise and return nothing. *)
C19_NestedValuesRegistered ==
    [][/\ to_json("artifact")
            => LET kept == SubSeq(data, 1, Min(Len(data), MAX_ARTIFACT_ROWS))
               IN  IF \E img \in ImageCells(kept) : (img.boxes \/ img.masks) /\ ~img.classes
                   THEN err' = "ValueError" /\ ret' = <<>>
                   ELSE /\ err' = ""
                        /\ \A i \in 1..Len(kept) :
                              kept[i][1][1] = "image"
                                => LET img == kept[i][1][2]
                                       cell == ret'[1].data[i][1][2]
                                   IN  /\ cell["path"] = ImagePath(img.id)
                                       /\ cell["path"] \in manifest'
                                       /\ img.classes => cell["classes"].path \in manifest'
       /\ \A id \in ImageIds :
             value_to_json(<<"Image", id>>, "artifact")
                => LET img == Image(id)[2]
                   IN  IF (img.boxes \/ img.masks) /\ ~img.classes
                       THEN err' = "ValueError" /\ ret' = <<>>
                       ELSE /\ err' = ""
                            /\ ret'[1][2]["path"] \in manifest'
                            /\ img.classes
                                 => /\ ret'[1][2]["classes"].path = "media/cls.classes.json"
                                    /\ "media/cls.classes.json" \in manifest']_vars

C19_Witness ==
    /\ op = "to_json"
    /\ err = ""
    /\ ret[1]._type = "table"
    /\ Len(data) = 2
    /\ data[1][1] = Image("i2")
    /\ ret[1].data[2][1][2]["classes"].path \in manifest

(* C20: val_to_json on a non-empty sequence of values of one BatchableMedia
   kind returns one aggregate object, not a list, whose count is the number of
   items kept: the first min(length, MAX_ITEMS) for a kind that has MAX_ITEMS
   (Image), all of them otherwise (Audio); bind_to_run is called on each kept
   item, in order, with id_ equal to its position, and the item is bound. *)
C20_BatchIsOneAggregate ==
    [][\A val \in BatchInputs :
          (/\ val_to_json(val)
           /\ Len(val) > 0
           /\ isBatchableMedia(val[1])
           /\ \A i \in 1..Len(val) : val[i][1] = val[1][1])
             => LET kept == IF val[1][1] = "Image" THEN Min(Len(val), MAX_ITEMS) ELSE Len(val)
                IN  /\ err' = ""
                    /\ ret'[1][1] = "dict"
                    /\ ret'[1][2].count = kept
                    /\ bind_log' = [i \in 1..kept |-> <<val[i], i - 1>>]
                    /\ \A i \in 1..kept : val[i] \in is_bound']_vars

C20_Witness ==
    /\ op = "val_to_json"
    /\ Len(batch) = MAX_ITEMS + 1
    /\ \A i \in 1..Len(batch) : batch[i][1] = "Image"
    /\ err = ""
    /\ ret[1][2].count = MAX_ITEMS
    /\ bind_log = <<<<batch[1], 0>>, <<batch[2], 1>>>>
    /\ warned

(* C21: Image.seq_to_json on images whose sizes differ logs a warning and
   returns the aggregate without raising, and the aggregate has a width and a
   height only when all the images of the group have the same size. *)
C21_Original ==
    [][\A val \in BatchInputs :
          (/\ val_to_json(val)
           /\ Len(val) > 0
           /\ \A i \in 1..Len(val) : val[i][1] = "Image")
             => LET n == Min(Len(val), MAX_ITEMS)
                    differ == \E i \in 1..n : ImageSize(val[i][2]) # ImageSize(val[1][2])
                IN  /\ err' = ""
                    /\ ret'[1][2]._type = "images/separated"
                    /\ differ => warned'
                    /\ differ => /\ "width" \notin DOMAIN ret'[1][2]
                                 /\ "height" \notin DOMAIN ret'[1][2]]_vars

(* C22: the to_json of a Table, an Image, a BoundingBoxes2D or an ImageMask,
   called with a destination that is neither a run nor an artifact, raises
   ValueError and returns no JSON. *)
C22_UnsupportedDestinationFails ==
    [][/\ to_json("other") => (err' = "ValueError" /\ ret' = <<>>)
       /\ \A v \in {w \in RichValues : w[1] \in {"Image", "BoundingBoxes2D", "ImageMask"}} :
             value_to_json(v, "other") => (err' = "ValueError" /\ ret' = <<>>)]_vars

C22_Witness ==
    /\ op = "BoundingBoxes2D"
    /\ err = "ValueError"
    /\ ret = <<>>

---------------------------------------------------------------------------
(* The constructor with per-column arguments *)

(* optional arguments: a single value, or a list of one, two or three values *)
OptionalArgs ==
    {<<"bool", TRUE>>, <<"bool", FALSE>>, <<"list", <<TRUE>>>>, <<"list", <<FALSE, TRUE>>>>,
     <<"list", <<TRUE, FALSE, TRUE>>>>}

(* dtype arguments: None, a single type, or a list of one, two or three types *)
DtypeArgs ==
    {<<"none">>, <<"type", Number>>, <<"list", <<Number>>>>, <<"list", <<Number, String>>>>,
     <<"list", <<String, Number, Unknown>>>>}

(* Table(columns, optional=o, dtype=d) *)
CtorInputs ==
    {<<c, o, d>> : c \in {<<"a">>, <<"a", "b">>, <<"a", "a">>}, o \in OptionalArgs, d \in DtypeArgs}

(* Rows offered to add_data *)
CtorRowInputs ==
    {<<Num(1)>>, <<Str("a")>>, <<Num(1), Str("a")>>, <<Str("a"), Num(1)>>, <<Num(1), Num(1)>>}

InitCtor == TableInit(CtorInputs) /\ MediaInit /\ NoParts /\ manifest = {} /\ NoBatch

NextCtor ==
    \/ \E cells \in CtorRowInputs : add_data(cells)
    \/ \E col_name \in CastNames, dtype \in CastDtypes, optional \in BOOLEAN :
            cast(col_name, dtype, optional)

SpecCtor == InitCtor /\ [][NextCtor]_vars

(* The optional and dtype arguments are single values or lists as long as columns *)
MatchingArgs ==
    /\ ctor_optional[1] = "list" => Len(ctor_optional[2]) = Len(columns)
    /\ ctor_dtype[1] = "list" => Len(ctor_dtype[2]) = Len(columns)

(* The optional flag and the dtype the constructor was given for the i-th column *)
optional_of(i) == IF ctor_optional[1] = "list" THEN ctor_optional[2][i] ELSE ctor_optional[2]

dtype_of(i) ==
    CASE ctor_dtype[1] = "none" -> Unknown
      [] ctor_dtype[1] = "type" -> ctor_dtype[2]
      [] OTHER -> ctor_dtype[2][i]

(* C23: a new Table whose optional and dtype arguments are single values or
   lists as long as columns maps every column c to Optional(dtype_c) when
   optional_c is true and to dtype_c otherwise, dtype defaulting to Unknown. *)
C23_Original ==
    (op = "__init__" /\ MatchingArgs)
        => \A i \in 1..Len(columns) :
              /\ columns[i] \in DOMAIN column_types[2]
              /\ column_types[2][columns[i]] =
                    IF optional_of(i) THEN Optional(dtype_of(i)) ELSE dtype_of(i)

(* C24: the column names of a Table are unique in every reachable state. *)
C24_Original ==
    \A i, j \in 1..Len(columns) : i # j => columns[i] # columns[j]

(* C30: in every reachable state the keys of the column-type record are the
   names of the table's columns. *)
C30_Original ==
    DOMAIN column_types[2] = Range(columns)

---------------------------------------------------------------------------
(* A column cast to a class-id type *)

(* The class-id types of a Classes of one id and of a Classes of two ids *)
ClassIdTypes == {_ClassesIdType({Num(1)}), _ClassesIdType({Num(1), Num(2)})}

(* Rows offered to add_data on the one-column table *)
ClassRowInputs == {<<Num(1)>>, <<Num(2)>>, <<Num(3)>>, <<Str("a")>>}

InitClasses == Init /\ columns = <<"a">> /\ ctor_optional = <<"bool", TRUE>>

NextClasses ==
    \/ \E cells \in ClassRowInputs : add_data(cells)
    \/ \E dtype \in ClassIdTypes \cup {Unknown} : cast("a", dtype, FALSE)

SpecClasses == InitClasses /\ [][NextClasses]_vars

(* C25: assigning a value to a class-id type returns the receiver unchanged
   when the value is one of the ids of its class set and Invalid for every
   other value; add_data on a column of that type accepts a row of an id,
   leaving the type as it is, and rejects every other row. *)
C25_Original ==
    [][\A cells \in ClassRowInputs :
          (add_data(cells) /\ column_types[2]["a"][1] = "ClassesId")
             => LET T == column_types[2]["a"]
                IN  IF Const(cells[1]) \in T[2][2]
                    THEN /\ assign(T, cells[1]) = T
                         /\ err' = ""
                         /\ column_types' = column_types
                    ELSE /\ assign(T, cells[1]) = Invalid
                         /\ err' = "TypeError"]_vars

(* C26: in every reachable state of a Table neither the column-type record nor
   the type of any column is Invalid, and a rejected row leaves the outcome of
   every later add_data as it was before the rejected call. *)
C26_NoInvalidCommitted ==
    /\ [](/\ ~IsInvalid(column_types)
          /\ \A k \in DOMAIN column_types[2] : ~IsInvalid(column_types[2][k]))
    /\ [][(op' = "add_data" /\ err' # "")
             => \A later \in RowInputs :
                   Len(later) = Len(columns)
                     => _validate_data(column_types', columns, later)
                          = _validate_data(column_types, columns, later)]_vars

C26_Witness ==
    /\ op = "add_data"
    /\ err = "TypeError"
    /\ Len(data) > 0
    /\ \E later \in RowInputs :
          Len(later) = Len(columns) /\ _validate_data(column_types, columns, later)[1] = ""

(* C27: the nrows of the table-file JSON that Table.to_json returns for a run
   is the number of rows that bind_to_run wrote to the staged file of the
   table, the table being unchanged since it was staged. *)
C27_Original ==
    [][(/\ to_json("run")
        /\ _path["Table"] # 0
        /\ tmp_files[_path["Table"]][2].data = _to_table_json(data, MAX_ROWS)[2])
          => ret'[1].nrows = Len(tmp_files[_path["Table"]][2].data)]_vars

(* C28: over any sequence of iterrows passes on a PartitionedTable, passes
   abandoned before their end and passes ended by the column check included,
   at most one part is loaded at any time. *)
C28_Original ==
    Cardinality(PartsLoaded) <= 1

(* C29: when JoinedTable.to_json(artifact) raises because one of its tables
   cannot be resolved, the entries of the artifact are those it had before the
   call. *)
C29_Original ==
    [][\A v \in JoinedValues :
          (value_to_json(v, "artifact") /\ err' # "") => manifest' = manifest]_vars

====
